---------------------------- MODULE Spec2Model ----------------------------
(* A model of the BFTTF font cache of nxdumptool (bfttf.c): the static     *)
(* font table, the mutex guarded bfttfInitialize / bfttfExit, the lock     *)
(* free bfttfGetFontByType and the XOR decoder bfttfDecodeFont.            *)
(*                                                                         *)
(* Numbers: TLC integers are 32 bit signed, so a u64 is kept as a pair     *)
(* [hi, lo] of its upper and lower 32 bit halves (lo below 2^31 in every   *)
(* value the model uses); the cast (u32)x is x.lo.  A title id is kept as  *)
(* its lower 32 bits (the upper half is 0x01000000 for every table entry). *)
(* A byte buffer is a sequence of bytes, offset k at index k + 1.          *)
EXTENDS Integers, Sequences, FiniteSets, TLC

(***************************************************************************)
(* Bounds of the model.                                                    *)
(***************************************************************************)
\* Number of entries of the static font table that are modelled (a prefix).
NumFonts == 3
\* Number of threads calling into the interface.
NumThreads == 2
\* Number of leading bytes of a heap block whose contents are modelled.
MaxView == 24

(***************************************************************************)
(* Program constants.                                                      *)
(***************************************************************************)
\* g_bfttfKey = 0x06186249
g_bfttfKey == 102261321
\* Size of the header bfttfGetFontByType skips, and the margin of the decoder.
HeaderSize == 8
\* Alignment bfttfDecodeFont requires of the size.
WordSize == 4

\* Lower 32 bits of the title ids of g_fontInfo, in table order:
\* 0x811, 0x810, 0x810, 0x812, 0x814, 0x814, 0x813.
FontTitleIds == <<2065, 2064, 2064, 2066, 2068, 2068, 2067>>

\* The static part (title_id) of the modelled prefix of g_fontInfo.
g_fontInfoTable == SubSeq(FontTitleIds, 1, NumFonts)

\* MAX_ELEMENTS(g_fontInfo)
g_fontInfoCount == Len(g_fontInfoTable)

\* One logical font type per table entry (bfttf.h is the enum's home).
BfttfFontType_Total == g_fontInfoCount

Threads == 1..NumThreads
Fonts == 1..g_fontInfoCount

(***************************************************************************)
(* Pointers and the heap.  A pointer is [blk, off]; block i (1..count) is  *)
(* the block malloc hands out for table entry i, block count + 1 is the    *)
(* temporary NCA context.  NULL is block 0.                                *)
(***************************************************************************)
NULL == [blk |-> 0, off |-> 0]
NcaBlk == g_fontInfoCount + 1
Blocks == 1..NcaBlk
Ptr(b) == [blk |-> b, off |-> 0]
PtrAdd(p, n) == [blk |-> p.blk, off |-> p.off + n]

\* A u64 as its two 32 bit halves, and the (u32) cast of line 147.
U64(h, l) == [hi |-> h, lo |-> l]
CastU32(x) == x.lo
IsZero64(x) == x.hi = 0 /\ x.lo = 0

Min(a, b) == IF a < b THEN a ELSE b

\* The number of bytes of a block of length len whose contents are modelled.
ViewLen(len) == IF len.hi > 0 THEN MaxView ELSE Min(len.lo, MaxView)

\* An uninitialised byte.
Uninit == -1

\* A block is [st, len, bytes, stage]: stage says how far the cache got with
\* it: "alloc" (allocated), "read" (filled by the reader), "decoded".
NoBlock == [st |-> "none", len |-> U64(0, 0), bytes |-> <<>>, stage |-> "none"]

FreedBlock ==
  [st |-> "freed", len |-> U64(0, 0), bytes |-> <<>>, stage |-> "none"]

\* malloc(len): a live block of len bytes with indeterminate contents.
FreshBlock(len) ==
  [st |-> "live", len |-> len, bytes |-> [k \in 1..ViewLen(len) |-> Uninit],
   stage |-> "alloc"]

(***************************************************************************)
(* The Archive Reader's data: the bytes of the file of table entry i, of   *)
(* length len (the modelled leading bytes).                                *)
(***************************************************************************)
RawFile(i, len) == [k \in 1..ViewLen(len) |-> (i * 31 + k * 7) % 256]

\* The size of the file of table entry e when it is one the decoder accepts:
\* 20, 2^32 + 20 or 12 bytes, by entry.
GoodSize(e) ==
  CASE e % 3 = 1 -> U64(0, 20)
    [] e % 3 = 2 -> U64(1, 20)
    [] OTHER -> U64(0, 12)

\* The sizes romfs_file_entry->size takes for table entry e: 0, 10 (not a
\* multiple of 4) and the entry's good size.
FileSizes(e) == {U64(0, 0), U64(0, 10), GoodSize(e)}

(***************************************************************************)
(* 32 bit arithmetic.                                                      *)
(***************************************************************************)
\* The largest value a modelled u32 takes; a wrapped difference saturates here.
U32Top == 2147483647

\* a - b in u32: a wrapped result (a < b) is above every modelled size.
U32Sub(a, b) == IF a >= b THEN a - b ELSE U32Top

\* IS_ALIGNED(x, y) for y a power of two: (x & (y - 1)) == 0.
IS_ALIGNED(x, y) == x % y = 0

RECURSIVE XorBits(_, _, _)
\* Bitwise exclusive or of the n low bits of a and b.
XorBits(a, b, n) ==
  IF n = 0 THEN 0
  ELSE ((a + b) % 2) + 2 * XorBits(a \div 2, b \div 2, n - 1)

\* Byte k (0 = least significant) of a 32 bit word.
ByteOf(w, k) == (w \div (256 ^ k)) % 256

\* XorWordAt with the key added to the word's bytes instead of XORed.
XorWordAt_Add(bytes, i) ==
  [k \in 1..Len(bytes) |->
     IF k - 1 >= i /\ k - 1 < i + WordSize /\ bytes[k] # Uninit
     THEN (bytes[k] + ByteOf(g_bfttfKey, k - 1 - i)) % 256
     ELSE bytes[k]]

\* *ptr = (*ptr ^ g_bfttfKey) on the little endian word at offset i: byte
\* lane k of the word is XORed with byte k of the key.
XorWordAt(bytes, i) ==
  [k \in 1..Len(bytes) |->
     IF k - 1 >= i /\ k - 1 < i + WordSize /\ bytes[k] # Uninit
     THEN XorBits(bytes[k], ByteOf(g_bfttfKey, k - 1 - i), 8)
     ELSE bytes[k]]

RECURSIVE DecodeLoop_Inclusive(_, _, _, _)
\* DecodeLoop with the test i <= (size - 8).
DecodeLoop_Inclusive(i, limit, bytes, touched) ==
  IF i <= limit
  THEN DecodeLoop_Inclusive(i + WordSize, limit, XorWordAt(bytes, i),
                            touched \cup (i..(i + WordSize - 1)))
  ELSE [bytes |-> bytes, touched |-> touched]

RECURSIVE DecodeLoop(_, _, _, _)
\* for(u32 i = 8; i < (size - 8); i += 4): the bytes after the loop and the
\* offsets it read and wrote.
DecodeLoop(i, limit, bytes, touched) ==
  IF i < limit
  THEN DecodeLoop(i + WordSize, limit, XorWordAt(bytes, i),
                  touched \cup (i..(i + WordSize - 1)))
  ELSE [bytes |-> bytes, touched |-> touched]

\* bfttfDecodeFont without the IS_ALIGNED(font_info->size, 4) test.
bfttfDecodeFont_NoAlignCheck(is_null, size, data, bytes) ==
  IF is_null \/ size <= HeaderSize \/ data = NULL
  THEN [ok |-> FALSE, bytes |-> bytes, touched |-> {}]
  ELSE LET r == DecodeLoop(HeaderSize, U32Sub(size, HeaderSize), bytes, {})
       IN  [ok |-> TRUE, bytes |-> r.bytes, touched |-> r.touched]

\* bfttfDecodeFont: is_null is !font_info; size, data and bytes are the
\* slot's size, its pointer and the contents it points to.
bfttfDecodeFont(is_null, size, data, bytes) ==
  IF is_null \/ size <= HeaderSize \/ ~IS_ALIGNED(size, WordSize) \/ data = NULL
  THEN [ok |-> FALSE, bytes |-> bytes, touched |-> {}]
  ELSE LET r == DecodeLoop(HeaderSize, U32Sub(size, HeaderSize), bytes, {})
       IN  [ok |-> TRUE, bytes |-> r.bytes, touched |-> r.touched]

\* The caller's BfttfFontData before any call wrote it.
NoFontData == [type |-> 255, size |-> 0, ptr |-> NULL]

\* bfttfGetFontByType returning the raw buffer: the header is not skipped.
bfttfGetFontByType_NoSkip(fd_null, out, font_type, info) ==
  IF fd_null \/ font_type >= BfttfFontType_Total
  THEN [ret |-> FALSE, out |-> out, oob |-> FALSE]
  ELSE LET font_info == info[font_type + 1]
       IN  IF font_info.size <= HeaderSize \/ font_info.data = NULL
           THEN [ret |-> FALSE, out |-> out, oob |-> FALSE]
           ELSE [ret |-> TRUE,
                 out |-> [type |-> font_type, size |-> font_info.size,
                          ptr |-> font_info.data],
                 oob |-> FALSE]

\* bfttfGetFontByType storing the type before it checks the slot.
bfttfGetFontByType_EarlyWrite(fd_null, out, font_type, info) ==
  IF fd_null \/ font_type >= BfttfFontType_Total
  THEN [ret |-> FALSE, out |-> out, oob |-> FALSE]
  ELSE LET font_info == info[font_type + 1]
       IN  IF font_info.size <= HeaderSize \/ font_info.data = NULL
           THEN [ret |-> FALSE, out |-> [out EXCEPT !.type = font_type],
                 oob |-> FALSE]
           ELSE [ret |-> TRUE,
                 out |-> [type |-> font_type,
                          size |-> U32Sub(font_info.size, HeaderSize),
                          ptr |-> PtrAdd(font_info.data, HeaderSize)],
                 oob |-> FALSE]

\* bfttfGetFontByType(font_data, font_type) on the slot table info: fd_null
\* is !font_data, out the contents of *font_data before the call.  oob says
\* that g_fontInfo was indexed past its end.
bfttfGetFontByType(fd_null, out, font_type, info) ==
  IF fd_null \/ font_type >= BfttfFontType_Total
  THEN [ret |-> FALSE, out |-> out, oob |-> FALSE]
  ELSE IF font_type >= g_fontInfoCount
  THEN [ret |-> FALSE, out |-> out, oob |-> TRUE]
  ELSE LET font_info == info[font_type + 1]
       IN  IF font_info.size <= HeaderSize \/ font_info.data = NULL
           THEN [ret |-> FALSE, out |-> out, oob |-> FALSE]
           ELSE [ret |-> TRUE,
                 out |-> [type |-> font_type,
                          size |-> U32Sub(font_info.size, HeaderSize),
                          ptr |-> PtrAdd(font_info.data, HeaderSize)],
                 oob |-> FALSE]

(***************************************************************************)
(* State.                                                                  *)
(***************************************************************************)
VARIABLES
  g_bfttfMutex,          \* 0 when free, else the thread holding it
  g_bfttfInterfaceInit,  \* the initialized flag
  g_fontInfo,            \* per table entry: [size, data]
  heap,                  \* per block: [st, len, bytes]
  pc,                    \* per thread: where it is
  loc,                   \* per thread: the locals of the running call
  lookup,                \* the bfttfGetFontByType call of the last step, if any
  free_err,              \* free() was passed a block that is not live
  leaked,                \* the only pointer to a live block was overwritten
  crashed,               \* the process aborted inside free()
  last_init,             \* result of the last bfttfInitialize since a bfttfExit
  torn,                  \* a bfttfExit returned and no bfttfInitialize began
  dec,                   \* a font slot bfttfDecodeFont is applied to on its own
  sl,                    \* a Mutex and the scoped locks the threads hold on it
  nacp                   \* a NacpContext, its buffers and the calls made on it

vars == <<g_bfttfMutex, g_bfttfInterfaceInit, g_fontInfo, heap, pc, loc,
          lookup, free_err, leaked, crashed, last_init, torn, dec, sl, nacp>>

\* The variables of the font cache.
cacheVars == <<g_bfttfMutex, g_bfttfInterfaceInit, g_fontInfo, heap, pc, loc,
               lookup, free_err, leaked, crashed, last_init, torn>>

\* The locals of bfttfInitialize (lines 63-71) and of bfttfExit (i), with
\* what the call did so far: did_read says an Archive Reader call was made,
\* n_open the container open sequences begun, attempted and failed the
\* table entries whose loop body ran and ran into a `continue`, was_init
\* that the call found the cache initialized, opened and open_failed the
\* table entries for which the container open sequence was begun and failed.
NoLocals ==
  [i |-> 0, count |-> 0, prev_title_id |-> 0, ret |-> FALSE,
   was_init |-> FALSE,
   nca_ctx |-> NULL, romfs_ctx |-> 0,
   entry_size |-> U64(0, 0),
   did_read |-> FALSE, n_open |-> 0, attempted |-> {}, failed |-> {},
   opened |-> {}, open_failed |-> {}]

\* No bfttfGetFontByType call in the last step.
NoLookup ==
  [called |-> FALSE, fd_null |-> FALSE, font_type |-> 0, ret |-> FALSE,
   out |-> NoFontData, oob |-> FALSE]

\* No font slot under the decoder.
NoDec ==
  [is_null |-> TRUE, size |-> 0, data |-> NULL, orig |-> <<>>,
   bytes |-> <<>>, n |-> 0, ok |-> TRUE, changed |-> FALSE, touched |-> {}]

\* No scoped lock: the Mutex is free (0) or held by a thread, scopes is each
\* thread's stack of UtilsScopedLock objects, innermost last, plain says
\* the thread took the Mutex by a mutexLock of its own, n counts the scopes
\* the thread entered.
NoScopes ==
  [mtx |-> 0, scopes |-> [t \in Threads |-> <<>>],
   plain |-> [t \in Threads |-> FALSE], n |-> [t \in Threads |-> 0]]

\* No NacpContext under test.
NoNacp == [made |-> FALSE]

Init ==
  /\ dec = NoDec
  /\ sl = NoScopes
  /\ nacp = NoNacp
  /\ g_bfttfMutex = 0
  /\ g_bfttfInterfaceInit = FALSE
  /\ g_fontInfo = [i \in Fonts |-> [size |-> 0, data |-> NULL]]
  /\ heap = [b \in Blocks |-> NoBlock]
  /\ pc = [t \in Threads |-> "idle"]
  /\ loc = [t \in Threads |-> NoLocals]
  /\ lookup = NoLookup
  /\ free_err = FALSE
  /\ leaked = FALSE
  /\ crashed = FALSE
  /\ last_init = "none"
  /\ torn = FALSE

(***************************************************************************)
(* free(p): a live block is released; any other block is a double free,    *)
(* after which the allocator either carries on or aborts the process.      *)
(***************************************************************************)
Free(p) ==
  IF heap[p.blk].st = "live"
  THEN /\ heap' = [heap EXCEPT ![p.blk] = FreedBlock]
       /\ UNCHANGED <<free_err, crashed>>
  ELSE /\ heap' = heap
       /\ free_err' = TRUE
       /\ crashed' \in BOOLEAN

\* LoopPc with the test of line 89 always true: every entry opens its
\* container anew.
LoopPc_AlwaysOpen(l) ==
  IF ~(l.i < g_fontInfoCount) THEN "init_fin" ELSE "init_open"

\* The place the loop of bfttfInitialize is at once the locals are l: past
\* the table (line 163), at the container open of entry l.i (line 89 true)
\* or at its path resolution (line 117).
LoopPc(l) ==
  IF ~(l.i < g_fontInfoCount) THEN "init_fin"
  ELSE IF g_fontInfoTable[l.i + 1] # l.prev_title_id THEN "init_open"
  ELSE "init_path"

\* The loop body of entry l.i begins: the entry is attempted.
Enter(l) ==
  IF l.i < g_fontInfoCount
  THEN [l EXCEPT !.attempted = @ \cup {l.i + 1}]
  ELSE l

\* `continue` on a failure of entry l.i: i++ and the loop test.
Continue(l) ==
  Enter([l EXCEPT !.i = @ + 1, !.failed = @ \cup {l.i + 1},
                  !.entry_size = U64(0, 0)])

\* The end of the loop body after a successful decode: count++, i++.
NextEntry(l) ==
  Enter([l EXCEPT !.i = @ + 1, !.count = @ + 1, !.entry_size = U64(0, 0)])

\* What every step of bfttfInitialize / bfttfExit leaves alone unless it says so.
Quiet == lookup' = NoLookup /\ dec' = dec /\ sl' = sl /\ nacp' = nacp

(***************************************************************************)
(* bfttfInitialize.                                                        *)
(***************************************************************************)
\* InitLock without the `if (ret) goto end` of line 72.
InitLock_NoEarlyExit(t) ==
  /\ ~crashed /\ pc[t] = "idle" /\ g_bfttfMutex = 0
  /\ g_bfttfMutex' = t
  /\ loc' = [loc EXCEPT ![t] = [NoLocals EXCEPT
                                  !.ret = g_bfttfInterfaceInit,
                                  !.was_init = g_bfttfInterfaceInit]]
  /\ pc' = [pc EXCEPT ![t] = "init_calloc"]
  /\ torn' = FALSE
  /\ Quiet
  /\ UNCHANGED <<g_bfttfInterfaceInit, g_fontInfo, heap, free_err, leaked,
                 crashed, last_init>>

\* Lines 59-72: a thread that is in no other call calls bfttfInitialize and
\* gets the mutex (a call blocked in mutexLock has done nothing yet); the
\* locals are set and ret is read from the flag: an initialized cache goes
\* straight to `end`.
InitLock(t) ==
  /\ ~crashed /\ pc[t] = "idle" /\ g_bfttfMutex = 0
  /\ g_bfttfMutex' = t
  /\ loc' = [loc EXCEPT ![t] = [NoLocals EXCEPT
                                  !.ret = g_bfttfInterfaceInit,
                                  !.was_init = g_bfttfInterfaceInit]]
  /\ pc' = [pc EXCEPT ![t] = IF g_bfttfInterfaceInit THEN "init_end"
                                                     ELSE "init_calloc"]
  /\ torn' = FALSE
  /\ Quiet
  /\ UNCHANGED <<g_bfttfInterfaceInit, g_fontInfo, heap, free_err, leaked,
                 crashed, last_init>>

\* Lines 75-80: the temporary NCA context is allocated, or calloc fails.
InitCalloc(t) ==
  /\ ~crashed /\ pc[t] = "init_calloc"
  /\ \/ /\ heap' = [heap EXCEPT ![NcaBlk] = FreshBlock(U64(0, 0))]
        /\ LET l == Enter([loc[t] EXCEPT !.nca_ctx = Ptr(NcaBlk)])
           IN  /\ loc' = [loc EXCEPT ![t] = l]
               /\ pc' = [pc EXCEPT ![t] = LoopPc(l)]
     \/ /\ pc' = [pc EXCEPT ![t] = "init_end"]
        /\ UNCHANGED <<heap, loc>>
  /\ Quiet
  /\ UNCHANGED <<g_bfttfMutex, g_bfttfInterfaceInit, g_fontInfo, free_err,
                 leaked, crashed, last_init, torn>>

\* The locals after a failed step of the container open of entry l.i.
OpenFailed(l, romfs) ==
  Continue([l EXCEPT !.did_read = TRUE, !.n_open = @ + 1,
                     !.romfs_ctx = romfs,
                     !.opened = @ \cup {l.i + 1},
                     !.open_failed = @ \cup {l.i + 1}])

\* InitOpen with the `continue` of lines 95, 102 and 109 missing: after a
\* failed open the entry's path is resolved all the same.
InitOpen_NoContinue(t) ==
  /\ ~crashed /\ pc[t] = "init_open"
  /\ LET l == loc[t]
         id == g_fontInfoTable[l.i + 1]
         o == [l EXCEPT !.did_read = TRUE, !.n_open = @ + 1,
                        !.opened = @ \cup {l.i + 1}]
     IN  \E l2 \in {[o EXCEPT !.open_failed = @ \cup {l.i + 1}],
                    [o EXCEPT !.romfs_ctx = id, !.prev_title_id = id]} :
           /\ loc' = [loc EXCEPT ![t] = l2]
           /\ pc' = [pc EXCEPT ![t] = "init_path"]
  /\ Quiet
  /\ UNCHANGED <<g_bfttfMutex, g_bfttfInterfaceInit, g_fontInfo, heap,
                 free_err, leaked, crashed, last_init, torn>>

\* InitOpen with prev_title_id updated before the open sequence, so that
\* a failed open is remembered too.
InitOpen_RemembersFailure(t) ==
  /\ ~crashed /\ pc[t] = "init_open"
  /\ LET l == loc[t]
         id == g_fontInfoTable[l.i + 1]
         m == [l EXCEPT !.prev_title_id = id]
     IN  \E l2 \in {OpenFailed(m, l.romfs_ctx),
                    OpenFailed(m, -1),
                    [m EXCEPT !.did_read = TRUE, !.n_open = @ + 1,
                              !.opened = @ \cup {l.i + 1},
                              !.romfs_ctx = id]} :
           /\ loc' = [loc EXCEPT ![t] = l2]
           /\ pc' = [pc EXCEPT ![t] = IF l2.i = l.i THEN "init_path"
                                                    ELSE LoopPc(l2)]
  /\ Quiet
  /\ UNCHANGED <<g_bfttfMutex, g_bfttfInterfaceInit, g_fontInfo, heap,
                 free_err, leaked, crashed, last_init, torn>>

\* Lines 89-114: title info, NCA context, RomFS context of the container of
\* entry i; a failure of any of the three is a `continue`.  romfs_ctx is
\* the title whose container the NCA and RomFS contexts read: 0 while they
\* are zeroed, -1 (nothing usable) once a failed initialisation wrote to
\* either of them.
InitOpen(t) ==
  /\ ~crashed /\ pc[t] = "init_open"
  /\ LET l == loc[t]
         id == g_fontInfoTable[l.i + 1]
     IN  \E l2 \in {OpenFailed(l, l.romfs_ctx),
                    OpenFailed(l, -1),
                    [l EXCEPT !.did_read = TRUE, !.n_open = @ + 1,
                              !.opened = @ \cup {l.i + 1},
                              !.romfs_ctx = id, !.prev_title_id = id]} :
           /\ loc' = [loc EXCEPT ![t] = l2]
           /\ pc' = [pc EXCEPT ![t] = IF l2.i = l.i THEN "init_path"
                                                    ELSE LoopPc(l2)]
  /\ Quiet
  /\ UNCHANGED <<g_bfttfMutex, g_bfttfInterfaceInit, g_fontInfo, heap,
                 free_err, leaked, crashed, last_init, torn>>

\* Lines 117-128: the path is resolved to a file entry, or not; an entry of
\* size 0 is rejected.
InitPath(t) ==
  /\ ~crashed /\ pc[t] = "init_path"
  /\ LET l == [loc[t] EXCEPT !.did_read = TRUE]
     IN  \/ /\ loc' = [loc EXCEPT ![t] = Continue(l)]
            /\ pc' = [pc EXCEPT ![t] = LoopPc(Continue(l))]
         \/ \E s \in FileSizes(l.i + 1) :
              IF IsZero64(s)
              THEN /\ loc' = [loc EXCEPT ![t] = Continue(l)]
                   /\ pc' = [pc EXCEPT ![t] = LoopPc(Continue(l))]
              ELSE /\ loc' = [loc EXCEPT ![t] = [l EXCEPT !.entry_size = s]]
                   /\ pc' = [pc EXCEPT ![t] = "init_malloc"]
  /\ Quiet
  /\ UNCHANGED <<g_bfttfMutex, g_bfttfInterfaceInit, g_fontInfo, heap,
                 free_err, leaked, crashed, last_init, torn>>

\* Lines 131-135: font_info->data = malloc(size); NULL is a `continue`.
\* Storing over the pointer to a live block loses that block.
InitMalloc(t) ==
  /\ ~crashed /\ pc[t] = "init_malloc"
  /\ LET l == loc[t]
         e == l.i + 1
     IN  \/ /\ heap' = [heap EXCEPT ![e] = FreshBlock(l.entry_size)]
            /\ g_fontInfo' = [g_fontInfo EXCEPT ![e].data = Ptr(e)]
            /\ leaked' = (leaked \/ heap[e].st = "live")
            /\ pc' = [pc EXCEPT ![t] = "init_read"]
            /\ loc' = loc
         \/ /\ g_fontInfo' = [g_fontInfo EXCEPT ![e].data = NULL]
            /\ leaked' = (leaked \/ heap[e].st = "live")
            /\ loc' = [loc EXCEPT ![t] = Continue(l)]
            /\ pc' = [pc EXCEPT ![t] = LoopPc(Continue(l))]
            /\ heap' = heap
  /\ Quiet
  /\ UNCHANGED <<g_bfttfMutex, g_bfttfInterfaceInit, free_err, crashed,
                 last_init, torn>>

\* InitRead without the free of line 141 on a failed read.
InitRead_NoFree(t) ==
  /\ ~crashed /\ pc[t] = "init_read"
  /\ LET l == [loc[t] EXCEPT !.did_read = TRUE]
         e == l.i + 1
     IN  \/ /\ heap' = [heap EXCEPT ![e].bytes = RawFile(e, l.entry_size),
                                    ![e].stage = "read"]
            /\ loc' = [loc EXCEPT ![t] = l]
            /\ pc' = [pc EXCEPT ![t] = "init_setsize"]
            /\ UNCHANGED <<g_fontInfo, free_err, crashed>>
         \/ /\ g_fontInfo' = [g_fontInfo EXCEPT ![e].data = NULL]
            /\ loc' = [loc EXCEPT ![t] = Continue(l)]
            /\ pc' = [pc EXCEPT ![t] = LoopPc(Continue(l))]
            /\ UNCHANGED <<heap, free_err, crashed>>
  /\ Quiet
  /\ UNCHANGED <<g_bfttfMutex, g_bfttfInterfaceInit, leaked, last_init,
                 torn>>

\* Lines 138-144: the entry's bytes are read into the buffer; on a failed
\* read the buffer is freed and the pointer reset.
InitRead(t) ==
  /\ ~crashed /\ pc[t] = "init_read"
  /\ LET l == [loc[t] EXCEPT !.did_read = TRUE]
         e == l.i + 1
     IN  \/ /\ heap' = [heap EXCEPT ![e].bytes = RawFile(e, l.entry_size),
                                    ![e].stage = "read"]
            /\ loc' = [loc EXCEPT ![t] = l]
            /\ pc' = [pc EXCEPT ![t] = "init_setsize"]
            /\ UNCHANGED <<g_fontInfo, free_err, crashed>>
         \/ /\ Free(g_fontInfo[e].data)
            /\ g_fontInfo' = [g_fontInfo EXCEPT ![e].data = NULL]
            /\ loc' = [loc EXCEPT ![t] = Continue(l)]
            /\ pc' = [pc EXCEPT ![t] = LoopPc(Continue(l))]
  /\ Quiet
  /\ UNCHANGED <<g_bfttfMutex, g_bfttfInterfaceInit, leaked, last_init,
                 torn>>

\* Line 147: font_info->size = (u32)romfs_file_entry->size.
InitSetSize(t) ==
  /\ ~crashed /\ pc[t] = "init_setsize"
  /\ g_fontInfo' = [g_fontInfo EXCEPT
                      ![loc[t].i + 1].size = CastU32(loc[t].entry_size)]
  /\ pc' = [pc EXCEPT ![t] = "init_decode"]
  /\ Quiet
  /\ UNCHANGED <<g_bfttfMutex, g_bfttfInterfaceInit, heap, loc, free_err,
                 leaked, crashed, last_init, torn>>

\* Lines 150 and 160: the buffer is decoded in place and counted, or the
\* decoder refuses it.
InitDecode(t) ==
  /\ ~crashed /\ pc[t] = "init_decode"
  /\ LET l == loc[t]
         e == l.i + 1
         fi == g_fontInfo[e]
         r == bfttfDecodeFont(FALSE, fi.size, fi.data, heap[fi.data.blk].bytes)
     IN  IF r.ok
         THEN /\ heap' = [heap EXCEPT ![fi.data.blk].bytes = r.bytes,
                                      ![fi.data.blk].stage = "decoded"]
              /\ loc' = [loc EXCEPT ![t] = NextEntry(l)]
              /\ pc' = [pc EXCEPT ![t] = LoopPc(NextEntry(l))]
         ELSE /\ pc' = [pc EXCEPT ![t] = "init_decfail"]
              /\ UNCHANGED <<heap, loc>>
  /\ Quiet
  /\ UNCHANGED <<g_bfttfMutex, g_bfttfInterfaceInit, g_fontInfo, free_err,
                 leaked, crashed, last_init, torn>>

\* Line 153: free(font_info->data) after a failed decode.
InitDecodeFailFree(t) ==
  /\ ~crashed /\ pc[t] = "init_decfail"
  /\ Free(g_fontInfo[loc[t].i + 1].data)
  /\ pc' = [pc EXCEPT ![t] = "init_decreset"]
  /\ Quiet
  /\ UNCHANGED <<g_bfttfMutex, g_bfttfInterfaceInit, g_fontInfo, loc,
                 leaked, last_init, torn>>

\* InitDecodeFailReset without the resets of lines 154 and 155.
InitDecodeFailReset_NoReset(t) ==
  /\ ~crashed /\ pc[t] = "init_decreset"
  /\ loc' = [loc EXCEPT ![t] = Continue(loc[t])]
  /\ pc' = [pc EXCEPT ![t] = LoopPc(Continue(loc[t]))]
  /\ Quiet
  /\ UNCHANGED <<g_bfttfMutex, g_bfttfInterfaceInit, g_fontInfo, heap,
                 free_err, leaked, crashed, last_init, torn>>

\* Lines 154-156: the pointer and the size are reset, then `continue`.
InitDecodeFailReset(t) ==
  /\ ~crashed /\ pc[t] = "init_decreset"
  /\ g_fontInfo' = [g_fontInfo EXCEPT
                      ![loc[t].i + 1] = [size |-> 0, data |-> NULL]]
  /\ loc' = [loc EXCEPT ![t] = Continue(loc[t])]
  /\ pc' = [pc EXCEPT ![t] = LoopPc(Continue(loc[t]))]
  /\ Quiet
  /\ UNCHANGED <<g_bfttfMutex, g_bfttfInterfaceInit, heap, free_err,
                 leaked, crashed, last_init, torn>>

\* InitFin reporting success whatever count is.
InitFin_AlwaysTrue(t) ==
  /\ ~crashed /\ pc[t] = "init_fin"
  /\ g_bfttfInterfaceInit' = TRUE
  /\ loc' = [loc EXCEPT ![t].ret = TRUE]
  /\ pc' = [pc EXCEPT ![t] = "init_end"]
  /\ Quiet
  /\ UNCHANGED <<g_bfttfMutex, g_fontInfo, heap, free_err, leaked, crashed,
                 last_init, torn>>

\* Line 163: ret = g_bfttfInterfaceInit = (count > 0).
InitFin(t) ==
  /\ ~crashed /\ pc[t] = "init_fin"
  /\ g_bfttfInterfaceInit' = (loc[t].count > 0)
  /\ loc' = [loc EXCEPT ![t].ret = (loc[t].count > 0)]
  /\ pc' = [pc EXCEPT ![t] = "init_end"]
  /\ Quiet
  /\ UNCHANGED <<g_bfttfMutex, g_fontInfo, heap, free_err, leaked, crashed,
                 last_init, torn>>

\* Lines 166-173: the RomFS context is released, the NCA context freed, the
\* mutex released and ret returned.
InitEnd(t) ==
  /\ ~crashed /\ pc[t] = "init_end"
  /\ IF loc[t].nca_ctx # NULL
     THEN Free(loc[t].nca_ctx)
     ELSE UNCHANGED <<heap, free_err, crashed>>
  /\ g_bfttfMutex' = 0
  /\ last_init' = IF loc[t].ret THEN "true" ELSE "false"
  /\ loc' = [loc EXCEPT ![t] = NoLocals]
  /\ pc' = [pc EXCEPT ![t] = "idle"]
  /\ Quiet
  /\ UNCHANGED <<g_bfttfInterfaceInit, g_fontInfo, leaked, torn>>

(***************************************************************************)
(* bfttfExit.                                                              *)
(***************************************************************************)
\* ExitLock without the mutexLock of line 178.
ExitLock_NoLock(t) ==
  /\ ~crashed /\ pc[t] = "idle"
  /\ g_bfttfMutex' = g_bfttfMutex
  /\ loc' = [loc EXCEPT ![t] = NoLocals]
  /\ pc' = [pc EXCEPT ![t] = "exit_loop"]
  /\ last_init' = "none"
  /\ Quiet
  /\ UNCHANGED <<g_bfttfInterfaceInit, g_fontInfo, heap, free_err, leaked,
                 crashed, torn>>

\* Lines 176-178: a thread that is in no other call calls bfttfExit and
\* gets the mutex.
ExitLock(t) ==
  /\ ~crashed /\ pc[t] = "idle" /\ g_bfttfMutex = 0
  /\ g_bfttfMutex' = t
  /\ loc' = [loc EXCEPT ![t] = NoLocals]
  /\ pc' = [pc EXCEPT ![t] = "exit_loop"]
  /\ last_init' = "none"
  /\ Quiet
  /\ UNCHANGED <<g_bfttfInterfaceInit, g_fontInfo, heap, free_err, leaked,
                 crashed, torn>>

\* ExitLoop without `font_info->size = 0` (line 184).
ExitLoop_KeepSize(t) ==
  /\ ~crashed /\ pc[t] = "exit_loop" /\ loc[t].i < g_fontInfoCount
  /\ LET e == loc[t].i + 1
     IN  /\ g_fontInfo' = g_fontInfo
         /\ IF g_fontInfo[e].data # NULL
            THEN Free(g_fontInfo[e].data)
            ELSE UNCHANGED <<heap, free_err, crashed>>
  /\ loc' = [loc EXCEPT ![t].i = @ + 1]
  /\ pc' = pc
  /\ Quiet
  /\ UNCHANGED <<g_bfttfMutex, g_bfttfInterfaceInit, leaked, last_init,
                 torn>>

\* Lines 183-185, one turn of the loop: the size is zeroed and a non null
\* data pointer is passed to free; the pointer itself is left as it is.
ExitLoop(t) ==
  /\ ~crashed /\ pc[t] = "exit_loop" /\ loc[t].i < g_fontInfoCount
  /\ LET e == loc[t].i + 1
     IN  /\ g_fontInfo' = [g_fontInfo EXCEPT ![e].size = 0]
         /\ IF g_fontInfo[e].data # NULL
            THEN Free(g_fontInfo[e].data)
            ELSE UNCHANGED <<heap, free_err, crashed>>
  /\ loc' = [loc EXCEPT ![t].i = @ + 1]
  /\ pc' = pc
  /\ Quiet
  /\ UNCHANGED <<g_bfttfMutex, g_bfttfInterfaceInit, leaked, last_init,
                 torn>>

\* ExitEnd without `g_bfttfInterfaceInit = false` (line 188).
ExitEnd_KeepFlag(t) ==
  /\ ~crashed /\ pc[t] = "exit_loop" /\ ~(loc[t].i < g_fontInfoCount)
  /\ g_bfttfInterfaceInit' = g_bfttfInterfaceInit
  /\ g_bfttfMutex' = 0
  /\ loc' = [loc EXCEPT ![t] = NoLocals]
  /\ pc' = [pc EXCEPT ![t] = "idle"]
  /\ torn' = TRUE
  /\ Quiet
  /\ UNCHANGED <<g_fontInfo, heap, free_err, leaked, crashed, last_init>>

\* Lines 188-190: the flag is cleared, the mutex released, the call returns.
ExitEnd(t) ==
  /\ ~crashed /\ pc[t] = "exit_loop" /\ ~(loc[t].i < g_fontInfoCount)
  /\ g_bfttfInterfaceInit' = FALSE
  /\ g_bfttfMutex' = 0
  /\ loc' = [loc EXCEPT ![t] = NoLocals]
  /\ pc' = [pc EXCEPT ![t] = "idle"]
  /\ torn' = TRUE
  /\ Quiet
  /\ UNCHANGED <<g_fontInfo, heap, free_err, leaked, crashed, last_init>>

(***************************************************************************)
(* bfttfGetFontByType.                                                     *)
(***************************************************************************)
\* The font types a caller passes: every type and the first one out of range.
LookupTypes == 0..BfttfFontType_Total

\* The arguments of a call: a null font_data, or a structure no call wrote
\* yet with each of the font types.
LookupArgs ==
  {[fd_null |-> TRUE, font_type |-> 0]}
    \cup {[fd_null |-> FALSE, font_type |-> ty] : ty \in LookupTypes}

\* Lookup taking g_bfttfMutex and returning without the unlock.
Lookup_HoldsLock(t) ==
  /\ ~crashed /\ pc[t] = "idle" /\ g_bfttfMutex = 0
  /\ g_bfttfMutex' = t
  /\ \E a \in LookupArgs :
       LET r == bfttfGetFontByType(a.fd_null, NoFontData, a.font_type,
                                   g_fontInfo)
       IN  lookup' = [called |-> TRUE, fd_null |-> a.fd_null,
                      font_type |-> a.font_type, ret |-> r.ret,
                      out |-> r.out, oob |-> r.oob]
  /\ UNCHANGED <<g_bfttfInterfaceInit, g_fontInfo, heap, pc,
                 loc, free_err, leaked, crashed, last_init, torn, dec, sl,
                 nacp>>

\* Lines 193-213: a thread that is in no other call looks a font up; the
\* call takes no lock and writes only the caller's structure.  The state
\* after the call does not say which thread made it, so the least thread
\* that is in no call stands for all of them.
Lookup(t) ==
  /\ ~crashed /\ pc[t] = "idle"
  /\ \A u \in Threads : pc[u] = "idle" => t <= u
  /\ \E a \in LookupArgs :
       LET r == bfttfGetFontByType(a.fd_null, NoFontData, a.font_type,
                                   g_fontInfo)
       IN  lookup' = [called |-> TRUE, fd_null |-> a.fd_null,
                      font_type |-> a.font_type, ret |-> r.ret,
                      out |-> r.out, oob |-> r.oob]
  /\ UNCHANGED <<g_bfttfMutex, g_bfttfInterfaceInit, g_fontInfo, heap, pc,
                 loc, free_err, leaked, crashed, last_init, torn, dec, sl,
                 nacp>>

(***************************************************************************)
(* The specification.                                                      *)
(***************************************************************************)
InitializeStep(t) ==
  \/ InitLock(t) \/ InitCalloc(t) \/ InitOpen(t) \/ InitPath(t)
  \/ InitMalloc(t) \/ InitRead(t) \/ InitSetSize(t) \/ InitDecode(t)
  \/ InitDecodeFailFree(t) \/ InitDecodeFailReset(t) \/ InitFin(t)
  \/ InitEnd(t)

ExitStep(t) == ExitLock(t) \/ ExitLoop(t) \/ ExitEnd(t)

Next ==
  \E t \in Threads :
    \/ InitializeStep(t)
    \/ ExitStep(t)
    \/ Lookup(t)

Spec == Init /\ [][Next]_vars

(***************************************************************************)
(* bfttfDecodeFont on its own: a font slot of any size up to               *)
(* MaxDecodeSize, with or without a buffer, to which the decoder is        *)
(* applied up to MaxApply times.  The buffer holds exactly size bytes.     *)
(***************************************************************************)
MaxDecodeSize == 28
MaxApply == 2
NumPatterns == 3

\* A buffer of n bytes, by pattern: all zero, all 255, or mixed.
Pattern(p, n) ==
  [k \in 1..n |-> IF p = 0 THEN 0 ELSE IF p = 1 THEN 255
                                  ELSE (k * 37 + p * 11) % 256]

DecInit ==
  /\ \E size \in 0..MaxDecodeSize, p \in 0..(NumPatterns - 1),
        has_info \in BOOLEAN, has_data \in BOOLEAN :
       dec = [is_null |-> ~has_info, size |-> size,
              data |-> IF has_data THEN Ptr(1) ELSE NULL,
              orig |-> IF has_data THEN Pattern(p, size) ELSE <<>>,
              bytes |-> IF has_data THEN Pattern(p, size) ELSE <<>>,
              n |-> 0, ok |-> TRUE, changed |-> FALSE, touched |-> {}]
  /\ sl = NoScopes
  /\ nacp = NoNacp
  /\ g_bfttfMutex = 0
  /\ g_bfttfInterfaceInit = FALSE
  /\ g_fontInfo = [i \in Fonts |-> [size |-> 0, data |-> NULL]]
  /\ heap = [b \in Blocks |-> NoBlock]
  /\ pc = [t \in Threads |-> "idle"]
  /\ loc = [t \in Threads |-> NoLocals]
  /\ lookup = NoLookup
  /\ free_err = FALSE
  /\ leaked = FALSE
  /\ crashed = FALSE
  /\ last_init = "none"
  /\ torn = FALSE

\* One call of bfttfDecodeFont on the slot: ok says every call so far
\* succeeded, changed that some call changed a byte, touched is the offsets
\* the calls read or wrote.
DecApply ==
  /\ dec.n < MaxApply
  /\ LET r == bfttfDecodeFont(dec.is_null, dec.size, dec.data, dec.bytes)
     IN  dec' = [dec EXCEPT !.bytes = r.bytes, !.n = @ + 1,
                            !.ok = @ /\ r.ok,
                            !.changed = @ \/ r.bytes # dec.bytes,
                            !.touched = @ \cup r.touched]
  /\ UNCHANGED <<g_bfttfMutex, g_bfttfInterfaceInit, g_fontInfo, heap, pc,
                 loc, lookup, free_err, leaked, crashed, last_init, torn,
                 sl, nacp>>

DecNext == DecApply

SpecDecode == DecInit /\ [][DecNext]_vars

(***************************************************************************)
(* Properties.                                                             *)
(***************************************************************************)
\* A bfttfInitialize call is running on some thread.
InitRunning ==
  \E t \in Threads : pc[t] \notin {"idle", "exit_loop"}

\* A bfttfExit call is running on some thread.
ExitRunning == \E t \in Threads : pc[t] = "exit_loop"

\* Table entry e was fetched and decoded: its slot points to a live block
\* the decoder has finished with.
Populated(e) ==
  /\ g_fontInfo[e].data # NULL
  /\ heap[g_fontInfo[e].data.blk].st = "live"
  /\ heap[g_fontInfo[e].data.blk].stage = "decoded"

\* The slot of entry e holds a size above the header and a live buffer.
Cached(e) ==
  /\ g_fontInfo[e].size > HeaderSize
  /\ g_fontInfo[e].data # NULL
  /\ heap[g_fontInfo[e].data.blk].st = "live"

\* The table entries the call of thread t fetched and decoded.
Succeeded(t) == loc[t].attempted \ loc[t].failed

\* Thread t is between the mutexLock and the mutexUnlock of bfttfInitialize
\* or bfttfExit.
InCritical(t) == pc[t] # "idle"

\* No bfttfInitialize and no bfttfExit call is running.
Quiescent == ~InitRunning /\ ~ExitRunning

\* The table entries that share the container (title id) of entry e.
SameContainer(e) == {f \in Fonts : g_fontInfoTable[f] = g_fontInfoTable[e]}

\* The table entries before f whose container open sequence succeeded in
\* the call whose locals are l.
OpenedBefore(l, f) == {e \in l.opened \ l.open_failed : e < f}

\* The title id prev_title_id holds when the loop reaches entry f: that of
\* the last open sequence that succeeded, 0 when there is none (line 66).
PrevTitleIdAt(l, f) ==
  IF OpenedBefore(l, f) = {} THEN 0
  ELSE g_fontInfoTable[CHOOSE e \in OpenedBefore(l, f) :
                         \A e2 \in OpenedBefore(l, f) : e2 <= e]

\* The entries of the table tab that begin a maximal run of consecutive
\* entries with the same title id.
RunStarts(tab) == {f \in 1..Len(tab) : f = 1 \/ tab[f] # tab[f - 1]}

RECURSIVE OpenCount(_, _, _)
\* The number of container open sequences the loop of lines 83-114 runs
\* from entry i of the table tab on, with prev_title_id = prev, when every
\* one of them succeeds.
OpenCount(tab, i, prev) ==
  IF i > Len(tab) THEN 0
  ELSE IF tab[i] # prev THEN 1 + OpenCount(tab, i + 1, tab[i])
  ELSE OpenCount(tab, i + 1, prev)

\* The last table entry for which the call whose locals are l began a
\* container open sequence, 0 when it began none.
LastOpened(l) ==
  IF l.opened = {} THEN 0
  ELSE CHOOSE e \in l.opened : \A e2 \in l.opened : e2 <= e

\* The number of open sequences of a call on the whole table in which
\* every open succeeds.
TableOpenCount == OpenCount(FontTitleIds, 1, 0)

\* No title id of the table is 0, the initial prev_title_id.
TitleIdsNonZero == \A f \in 1..Len(FontTitleIds) : FontTitleIds[f] # 0

\* No title id of the table comes back after a different one.
TitleIdsNeverRecur ==
  \A f, g, h \in 1..Len(FontTitleIds) :
    (f < g /\ g < h /\ FontTitleIds[f] = FontTitleIds[h]) =>
      FontTitleIds[g] = FontTitleIds[f]

\* What bfttfGetFontByType returns now for a non null font_data and type ty.
LookupNow(ty) == bfttfGetFontByType(FALSE, NoFontData, ty, g_fontInfo)

\* The view [ptr, ptr + size) lies inside the block ptr points into.
InsideBlock(ptr, size) ==
  /\ ptr.blk \in Blocks
  /\ heap[ptr.blk].st = "live"
  /\ \/ heap[ptr.blk].len.hi > 0
     \/ ptr.off + size <= heap[ptr.blk].len.lo

\* C1: over any sequence of bfttfInitialize and bfttfExit calls no buffer is
\* freed twice and no pointer to a block that is not live is passed to free.
C1_NoDoubleFree == free_err = FALSE

\* C2: when bfttfInitialize returns, the value it returns equals the
\* initialized flag, and it is true exactly when the cache was initialized
\* already or at least one table entry was fetched and decoded in this call
\* (each such entry's slot then points to its decoded buffer).
C2_InitializeResult ==
  \A t \in Threads :
    pc[t] = "init_end" =>
      /\ loc[t].ret = g_bfttfInterfaceInit
      /\ loc[t].ret <=> (loc[t].was_init \/ Succeeded(t) # {})
      /\ \A e \in Succeeded(t) : Populated(e) /\ g_fontInfo[e].size > 0

\* C2 witness: a call returns true although some of its entries failed.
C2_Witness ==
  \E t \in Threads :
    /\ pc[t] = "init_end" /\ loc[t].ret /\ ~loc[t].was_init
    /\ loc[t].failed # {}

\* C3: a bfttfInitialize call that finds the cache initialized goes straight
\* to its end, returns true, makes no Archive Reader call, allocates nothing
\* and changes no slot, no buffer and not the flag; and no step other than
\* one of bfttfExit changes the slot or the buffer of a decoded entry.
C3_InitializedIsNoOp ==
  [][/\ \A t \in Threads :
          /\ (InitLock(t) /\ g_bfttfInterfaceInit) =>
               /\ pc'[t] = "init_end"
               /\ loc'[t].ret /\ ~loc'[t].did_read
               /\ loc'[t].nca_ctx = NULL
               /\ UNCHANGED <<g_fontInfo, heap, g_bfttfInterfaceInit>>
          /\ (loc[t].was_init /\ pc[t] # pc'[t]) =>
               /\ pc'[t] = "idle" /\ last_init' = "true"
               /\ UNCHANGED <<g_fontInfo, heap, g_bfttfInterfaceInit>>
     /\ \A e \in Fonts :
          (Populated(e) /\ ~ExitRunning /\ ~ExitRunning') =>
             /\ g_fontInfo'[e] = g_fontInfo[e]
             /\ heap'[e] = heap[e]
    ]_vars

\* C3 witness: a call that found the cache initialized is about to return
\* while every slot is decoded.
C3_Witness ==
  \E t \in Threads :
    /\ pc[t] = "init_end" /\ loc[t].was_init
    /\ \A e \in Fonts : Populated(e)

\* C4 as claimed: whatever the previous bfttfInitialize returned, a next
\* call with no bfttfExit in between makes no Archive Reader call and
\* returns the same value.
C4_SecondCallRepeatsFirst ==
  \A t \in Threads :
    (pc[t] = "init_end" /\ last_init # "none") =>
      /\ ~loc[t].did_read
      /\ loc[t].ret <=> (last_init = "true")

\* C4 amended: when the previous bfttfInitialize returned true, a next call
\* with no bfttfExit in between makes no Archive Reader call, attempts no
\* table entry and returns true.
C4_SecondCallAfterSuccess ==
  \A t \in Threads :
    (pc[t] = "init_end" /\ last_init = "true") =>
      /\ ~loc[t].did_read
      /\ loc[t].attempted = {}
      /\ loc[t].ret

\* C4 witness: a second call after a successful one is about to return.
C4_Witness ==
  \E t \in Threads : pc[t] = "init_end" /\ last_init = "true"

\* C5: when a bfttfInitialize call that ran the loop returns, every table
\* entry was attempted, every failed entry's slot has size 0 and a null
\* pointer with no live block left behind, and every other entry is decoded.
C5_FailureIsolated ==
  \A t \in Threads :
    (pc[t] = "init_end" /\ loc[t].nca_ctx # NULL) =>
      /\ loc[t].attempted = Fonts
      /\ \A e \in loc[t].failed :
           /\ g_fontInfo[e] = [size |-> 0, data |-> NULL]
           /\ heap[e].st # "live"
      /\ \A e \in Fonts \ loc[t].failed : Populated(e)

\* C6: for every slot holding a size S above 8 and a live buffer,
\* bfttfGetFontByType returns true with the requested type, size S - 8 and the buffer's address
\* plus 8, a view inside the buffer; so does every call that was made.
C6_LookupView ==
  /\ \A e \in Fonts :
       Cached(e) =>
         /\ LookupNow(e - 1).ret
         /\ LookupNow(e - 1).out =
              [type |-> e - 1, size |-> g_fontInfo[e].size - 8,
               ptr |-> [blk |-> g_fontInfo[e].data.blk,
                        off |-> g_fontInfo[e].data.off + 8]]
         /\ InsideBlock(LookupNow(e - 1).out.ptr, LookupNow(e - 1).out.size)
  /\ (lookup.called /\ ~lookup.fd_null
        /\ lookup.font_type < g_fontInfoCount) =>
       (Cached(lookup.font_type + 1) =>
          /\ lookup.ret
          /\ lookup.out = LookupNow(lookup.font_type).out
          /\ lookup.out.size = g_fontInfo[lookup.font_type + 1].size - 8)

\* C6 witness: a call returned a view of a cached font.
C6_Witness ==
  /\ lookup.called /\ lookup.ret
  /\ Cached(lookup.font_type + 1)
  /\ lookup.out.size = 12

\* C7: a bfttfGetFontByType call returns false exactly when font_data is
\* null, the type is not below the number of font types, the slot's size is
\* at most 8 or its pointer is null; it then leaves the caller's structure
\* as it was; and no call indexes the table past its end.
C7_LookupFailure ==
  lookup.called =>
    /\ ~lookup.oob
    /\ ~lookup.ret <=>
         \/ lookup.fd_null
         \/ lookup.font_type >= g_fontInfoCount
         \/ g_fontInfo[lookup.font_type + 1].size <= 8
         \/ g_fontInfo[lookup.font_type + 1].data = NULL
    /\ ~lookup.ret => lookup.out = NoFontData

\* C7 witness: a call for a type in range failed on a slot whose size is 0
\* while its pointer is not null.
C7_Witness ==
  /\ lookup.called /\ ~lookup.ret /\ ~lookup.fd_null
  /\ lookup.font_type < g_fontInfoCount
  /\ g_fontInfo[lookup.font_type + 1].size = 0
  /\ g_fontInfo[lookup.font_type + 1].data # NULL
  /\ lookup.out = NoFontData

\* C8: from the return of a bfttfExit until the next bfttfInitialize begins,
\* bfttfGetFontByType returns false for every font type.
C8_UnavailableAfterExit ==
  torn =>
    /\ \A a \in LookupArgs :
         ~bfttfGetFontByType(a.fd_null, NoFontData, a.font_type,
                             g_fontInfo).ret
    /\ lookup.called => ~lookup.ret

\* C8 witness: after a bfttfExit a call asked for a font that was available
\* before (its slot still holds the pointer) and got false.
C8_Witness ==
  /\ torn /\ lookup.called /\ ~lookup.fd_null
  /\ lookup.font_type < g_fontInfoCount
  /\ g_fontInfo[lookup.font_type + 1].data # NULL
  /\ ~lookup.ret

C10_DecodeInvolution ==
  (/\ dec.n = 2 /\ ~dec.is_null /\ dec.data # NULL
   /\ dec.size > 8 /\ dec.size % 4 = 0) =>
     /\ dec.ok
     /\ dec.bytes = dec.orig

\* C10 witness: two calls on a 24 byte buffer, the first of which changed it.
C10_Witness ==
  /\ dec.n = 2 /\ dec.size = 24 /\ dec.ok /\ dec.changed
  /\ dec.bytes = dec.orig

\* C11: a call of bfttfDecodeFont on a slot whose size is at most 8 or not a
\* multiple of 4, or whose data pointer is null, returns false and leaves
\* the buffer's bytes, the slot's size and its pointer as they were.
C11_DecodeRejects ==
  [][(/\ dec'.n = dec.n + 1
      /\ (dec.size <= 8 \/ dec.size % 4 # 0 \/ dec.data = NULL)) =>
       /\ ~dec'.ok
       /\ dec'.bytes = dec.bytes
       /\ dec'.size = dec.size
       /\ dec'.data = dec.data
       /\ dec'.touched = dec.touched
    ]_vars

\* C11 witness: a call on an 18 byte buffer (above the header, not a
\* multiple of 4) failed and the buffer is as it was.
C11_Witness ==
  /\ dec.n = 1 /\ ~dec.is_null /\ dec.data # NULL /\ dec.size = 18
  /\ ~dec.ok /\ dec.bytes = dec.orig /\ Len(dec.bytes) = 18

\* C12: for a fetched file of exactly 12 bytes, once bfttfInitialize decoded
\* it, bytes 8..11 of the buffer are the file's bytes XORed with the key
\* and bfttfGetFontByType returns the 4 byte view of them.
C12_TwelveByteView ==
  \A e \in Fonts :
    (/\ Populated(e) /\ g_fontInfo[e].size = 12
     /\ heap[g_fontInfo[e].data.blk].len = U64(0, 12)) =>
      /\ LookupNow(e - 1).ret
      /\ LookupNow(e - 1).out.size = 4
      /\ LookupNow(e - 1).out.ptr = PtrAdd(g_fontInfo[e].data, 8)
      /\ \A k \in 9..12 :
           heap[g_fontInfo[e].data.blk].bytes[k] =
             XorBits(RawFile(e, U64(0, 12))[k], ByteOf(g_bfttfKey, k - 9), 8)

\* C13: when a bfttfInitialize call that ran the loop returns, for every
\* container whose open failed on every attempt, each of its entries was
\* skipped by a `continue`, every entry of another container was attempted,
\* with an open of its own container begun for it or for an earlier entry
\* of its container where it succeeded, and the call returns true exactly
\* when some entry was fetched and decoded.
C13_ContainerFailureIsolated ==
  \A t \in Threads :
    (pc[t] = "init_end" /\ loc[t].nca_ctx # NULL) =>
      /\ \A e \in Fonts :
           SameContainer(e) \subseteq loc[t].open_failed =>
             /\ SameContainer(e) \subseteq loc[t].failed
             /\ \A f \in Fonts \ SameContainer(e) :
                  /\ f \in loc[t].attempted
                  /\ \/ f \in loc[t].opened
                     \/ \E f0 \in SameContainer(f) :
                          /\ f0 < f
                          /\ f0 \in loc[t].opened \ loc[t].open_failed
      /\ loc[t].ret <=> (Succeeded(t) # {})
      /\ loc[t].ret = g_bfttfInterfaceInit

\* C13 witness: the container of entries 2 and 3 failed to open for both,
\* entry 1 of another container was decoded and the call returns true.
C13_Witness ==
  \E t \in Threads :
    /\ pc[t] = "init_end" /\ loc[t].ret
    /\ SameContainer(2) = {2, 3}
    /\ {2, 3} \subseteq loc[t].open_failed
    /\ 1 \in Succeeded(t) /\ Populated(1)

\* C14: at most one thread at a time is between the mutexLock and the
\* mutexUnlock of bfttfInitialize or bfttfExit, and it is the thread that
\* holds the mutex; every step that writes a slot, a buffer or the flag is
\* taken by that thread; and a bfttfInitialize call that got the mutex once
\* the cache was initialized makes no Archive Reader call.
C14_MutualExclusion ==
  [][/\ \A t1, t2 \in Threads :
          (InCritical(t1)' /\ InCritical(t2)') => t1 = t2
     /\ \A t \in Threads : InCritical(t)' <=> (g_bfttfMutex' = t)
     /\ (\/ g_fontInfo' # g_fontInfo \/ heap' # heap
         \/ g_bfttfInterfaceInit' # g_bfttfInterfaceInit) =>
          /\ g_bfttfMutex \in Threads
          /\ InCritical(g_bfttfMutex)
          /\ \A u \in Threads \ {g_bfttfMutex} :
               pc[u] = "idle" /\ pc'[u] = "idle"
     /\ \A t \in Threads :
          loc'[t].was_init => ~loc'[t].did_read /\ loc'[t].attempted = {}
    ]_vars

\* C14 witness: one thread holds the mutex in the middle of the loop of
\* bfttfInitialize, after an entry was decoded, while the other thread is
\* in no call.
C14_Witness ==
  \E t1, t2 \in Threads :
    /\ t1 # t2 /\ g_bfttfMutex = t1 /\ pc[t1] = "init_decode"
    /\ loc[t1].count > 0 /\ pc[t2] = "idle"

\* C15: a bfttfGetFontByType call leaves the mutex, the flag, every slot's
\* size and pointer and every buffer as they are, whoever holds the mutex;
\* it writes the caller's structure only when it returns true.
C15_LookupIsPureRead ==
  [][lookup'.called =>
       /\ UNCHANGED <<g_bfttfMutex, g_bfttfInterfaceInit, g_fontInfo, heap,
                      pc, loc>>
       /\ ~lookup'.ret => lookup'.out = NoFontData
       /\ lookup'.ret => lookup'.out.type = lookup'.font_type
    ]_vars

\* C15 witness: a call returned a view while another thread held the mutex
\* inside bfttfExit.
C15_Witness ==
  /\ lookup.called /\ lookup.ret /\ lookup.out # NoFontData
  /\ g_bfttfMutex # 0 /\ ExitRunning

\* C16 as claimed: once the container open sequence failed for an entry,
\* no open is begun for a later entry of the same container in that call.
C16_FailedOpenNotRetried ==
  \A t \in Threads :
    \A e \in loc[t].open_failed :
      \A f \in SameContainer(e) : f > e => f \notin loc[t].opened

\* C16 amended: an entry whose container open sequence failed is skipped by
\* a `continue`, and a failed open is not remembered: the open sequence is
\* begun for an entry exactly when its title id differs from that of the
\* last open that succeeded in this call (from 0 when none did), so it is
\* begun again for the next entry of a container whose open failed.
C16_OpenUnlessLastSucceeded ==
  \A t \in Threads :
    /\ loc[t].open_failed \subseteq loc[t].failed
    /\ loc[t].open_failed \subseteq loc[t].opened
    /\ \A f \in loc[t].attempted :
         (f \in loc[t].opened \/ (pc[t] = "init_open" /\ f = loc[t].i + 1))
           <=> g_fontInfoTable[f] # PrevTitleIdAt(loc[t], f)
    /\ \A e \in loc[t].open_failed :
         \A f \in SameContainer(e) \cap loc[t].attempted :
           (f > e /\ OpenedBefore(loc[t], f) \cap SameContainer(e) = {}) =>
             (f \in loc[t].opened \/ (pc[t] = "init_open" /\ f = loc[t].i + 1))

\* C16 witness: the open failed for entry 2 and was begun again for entry 3
\* of the same container.
C16_Witness ==
  \E t \in Threads :
    /\ 2 \in loc[t].open_failed /\ 3 \in SameContainer(2)
    /\ 3 \in loc[t].opened

\* The offsets of the 4 byte words of a buffer of size bytes from offset 8 on.
WordOffsets(size) == {w \in 8..(size - 4) : w % 4 = 0}

\* The word at offset w of the decoder's buffer was read and written and
\* holds its original bytes XORed with the key.
WordXored(w) ==
  \A k \in w..(w + 3) :
    /\ k \in dec.touched
    /\ dec.bytes[k + 1] = XorBits(dec.orig[k + 1], ByteOf(g_bfttfKey, k - w), 8)

\* The word at offset w of the decoder's buffer was not accessed and holds
\* its original bytes.
WordKept(w) ==
  \A k \in w..(w + 3) :
    k \notin dec.touched /\ dec.bytes[k + 1] = dec.orig[k + 1]

\* C17: a call of bfttfDecodeFont that returns true was given a size above
\* 8 that is a multiple of 4, so size - 8 does not wrap; it accessed exactly
\* the bytes at offsets 8 <= k < size - 8, all inside the buffer, each of
\* which holds its original value XORed once with the key's byte of its
\* lane, and left the header [0, 8) and the trailer [size - 8, size) alone.
C17_DecodeWords ==
  (dec.n = 1 /\ dec.ok) =>
    /\ dec.size > 8 /\ dec.size % 4 = 0 /\ dec.data # NULL
    /\ U32Sub(dec.size, 8) = dec.size - 8
    /\ Len(dec.bytes) = dec.size
    /\ dec.touched = {k \in 0..(dec.size - 1) : 8 <= k /\ k < dec.size - 8}
    /\ \A k \in 0..(dec.size - 1) :
         dec.bytes[k + 1] =
           IF 8 <= k /\ k < dec.size - 8
           THEN XorBits(dec.orig[k + 1], ByteOf(g_bfttfKey, k % 4), 8)
           ELSE dec.orig[k + 1]

\* C17 witness: a call on a 24 byte buffer XORed the words at 8 and 12 and
\* left header and trailer as they were.
C17_Witness ==
  /\ dec.n = 1 /\ dec.ok /\ dec.size = 24 /\ dec.changed
  /\ dec.touched = 8..15
  /\ SubSeq(dec.bytes, 1, 8) = SubSeq(dec.orig, 1, 8)
  /\ SubSeq(dec.bytes, 17, 24) = SubSeq(dec.orig, 17, 24)

\* C18 as claimed: a successful call XORs every word at offsets 8, 12, ...,
\* size - 8 and leaves only the word at size - 4 as it was.
C18_OnlyLastWordExcluded ==
  (dec.n = 1 /\ dec.ok) =>
    \A w \in WordOffsets(dec.size) :
      IF w = dec.size - 4 THEN WordKept(w) ELSE WordXored(w)

\* C18 amended: a successful call XORs every word at offsets 8, 12, ...
\* below size - 8 and leaves the words at size - 8 and size - 4 (the one
\* word at 8 when size is 12) as they were.
C18_TrailerWordsExcluded ==
  (dec.n = 1 /\ dec.ok) =>
    \A w \in WordOffsets(dec.size) :
      IF w >= dec.size - 8 THEN WordKept(w) ELSE WordXored(w)

\* C18 witness: a call on a 20 byte buffer XORed the word at 8 and left the
\* words at 12 and 16 as they were.
C18_Witness ==
  /\ dec.n = 1 /\ dec.ok /\ dec.size = 20
  /\ WordXored(8) /\ WordKept(12) /\ WordKept(16)

\* C19: whenever no bfttfInitialize and no bfttfExit is running, every
\* slot's pointer is null exactly when its size is 0, and a slot of size
\* above 0 points to a live block.
C19_PointerIffSize ==
  Quiescent =>
    \A e \in Fonts :
      /\ (g_fontInfo[e].data = NULL) <=> (g_fontInfo[e].size = 0)
      /\ g_fontInfo[e].size > 0 =>
           /\ g_fontInfo[e].data # NULL
           /\ heap[g_fontInfo[e].data.blk].st = "live"

\* C20: whenever no bfttfInitialize and no bfttfExit is running, the flag is
\* true exactly when some slot has a size above 8 and a non null pointer,
\* and while the flag is false every slot's size is 0.
C20_FlagIffAvailable ==
  Quiescent =>
    /\ g_bfttfInterfaceInit <=>
         \E e \in Fonts :
           g_fontInfo[e].size > HeaderSize /\ g_fontInfo[e].data # NULL
    /\ ~g_bfttfInterfaceInit => \A e \in Fonts : g_fontInfo[e].size = 0

\* C20 witness: after a bfttfExit and a further bfttfInitialize the flag is
\* true, one slot is available and another one, which the further call
\* failed to fetch, has size 0.
C20_Witness ==
  /\ Quiescent /\ g_bfttfInterfaceInit
  /\ \E e1, e2 \in Fonts :
       /\ Cached(e1)
       /\ g_fontInfo[e2].size = 0 /\ g_fontInfo[e2].data # NULL
       /\ heap[g_fontInfo[e2].data.blk].st = "freed"

\* C21: the loop of bfttfInitialize takes the table entries in table order,
\* and as long as no container open failed in the call, the open sequence
\* was begun exactly for the entries that begin a run of consecutive
\* entries with the same title id (5 of the 7 entries of the table), the
\* other entries of a run being resolved and read through the context
\* opened for their title id.
C21_OneOpenPerRun ==
  /\ Cardinality(RunStarts(FontTitleIds)) = 5
  /\ TableOpenCount = 5
  /\ \A t \in Threads :
       loc[t].nca_ctx # NULL =>
         /\ loc[t].attempted = {f \in Fonts : f <= loc[t].i + 1}
         /\ loc[t].open_failed = {} =>
              /\ loc[t].opened
                   \cup (IF pc[t] = "init_open" THEN {loc[t].i + 1} ELSE {})
                   = RunStarts(g_fontInfoTable) \cap loc[t].attempted
              /\ loc[t].n_open = Cardinality(loc[t].opened)
              /\ pc[t] \in {"init_path", "init_malloc", "init_read"} =>
                   loc[t].romfs_ctx = g_fontInfoTable[loc[t].i + 1]

\* C21 witness: a call in which no open failed returns after it decoded
\* entry 3 through the context opened for entry 2.
C21_Witness ==
  \E t \in Threads :
    /\ pc[t] = "init_end" /\ loc[t].ret /\ loc[t].open_failed = {}
    /\ loc[t].opened = {1, 2} /\ loc[t].n_open = 2
    /\ 3 \in Succeeded(t) /\ g_fontInfoTable[3] = g_fontInfoTable[2]

\* C22: no store to a slot's pointer overwrites the only pointer to a live
\* buffer; when bfttfInitialize is about to enter its loop no slot's buffer
\* is live; and every live buffer is the one its slot points to.
C22_NoLeak ==
  /\ ~leaked
  /\ \A t \in Threads :
       pc[t] = "init_calloc" =>
         /\ ~g_bfttfInterfaceInit
         /\ \A e \in Fonts : heap[e].st # "live"
  /\ \A e \in Fonts :
       heap[e].st = "live" => g_fontInfo[e].data = Ptr(e)

\* C22 witness: in a bfttfInitialize after a bfttfExit, entry 1 failed
\* past its container open and its slot's pointer is null with no live
\* buffer, another entry's buffer is live and decoded, and a slot still
\* holds the pointer the bfttfExit freed.
C22_Witness ==
  \E t \in Threads :
    /\ pc[t] # "idle" /\ loc[t].nca_ctx # NULL
    /\ 1 \in loc[t].failed /\ 1 \notin loc[t].open_failed
    /\ g_fontInfo[1].data = NULL /\ heap[1].st = "freed"
    /\ \E e \in Fonts : heap[e].st = "live" /\ Populated(e)
    /\ \E e \in Fonts : g_fontInfo[e].data # NULL /\ heap[e].st = "freed"

C24_OwnContext ==
  /\ TitleIdsNonZero
  /\ TitleIdsNeverRecur
  /\ \A t \in Threads :
       pc[t] \in {"init_path", "init_malloc", "init_read"} =>
         /\ LastOpened(loc[t]) \in loc[t].opened \ loc[t].open_failed
         /\ g_fontInfoTable[LastOpened(loc[t])] = g_fontInfoTable[loc[t].i + 1]
         /\ loc[t].romfs_ctx = g_fontInfoTable[loc[t].i + 1]

\* C24 witness: entry 3 is read through the context opened for entry 2,
\* after the open for entry 1, of another container, failed.
C24_Witness ==
  \E t \in Threads :
    /\ pc[t] = "init_read" /\ loc[t].i + 1 = 3
    /\ 1 \in loc[t].open_failed /\ LastOpened(loc[t]) = 2
    /\ loc[t].romfs_ctx = g_fontInfoTable[3]

\* C25: for every slot that was fetched and decoded, the size stored in the
\* slot is the 64 bit size of the file entry, the number of bytes that were
\* allocated and read.
C25_SizeMatchesLength ==
  \A e \in Fonts :
    Populated(e) =>
      heap[g_fontInfo[e].data.blk].len = U64(0, g_fontInfo[e].size)

(***************************************************************************)
(* SCOPED_LOCK on its own: the threads take one Mutex through scoped locks, *)
(* nested up to MaxDepth deep, and through mutexLock / mutexUnlock calls   *)
(* of their own around them.  Each thread enters at most MaxScopes scopes.  *)
(***************************************************************************)
MaxDepth == 2
MaxScopes == 3

\* The font cache before any call.
CacheInit ==
  /\ g_bfttfMutex = 0
  /\ g_bfttfInterfaceInit = FALSE
  /\ g_fontInfo = [i \in Fonts |-> [size |-> 0, data |-> NULL]]
  /\ heap = [b \in Blocks |-> NoBlock]
  /\ pc = [t \in Threads |-> "idle"]
  /\ loc = [t \in Threads |-> NoLocals]
  /\ lookup = NoLookup
  /\ free_err = FALSE
  /\ leaked = FALSE
  /\ crashed = FALSE
  /\ last_init = "none"
  /\ torn = FALSE

\* mutexIsLockedByCurrentThread(mtx) on thread t: mtx is the Mutex's owner.
mutexIsLockedByCurrentThread(mtx, t) == mtx = t

\* utilsLockScope(mtx) on thread t: the UtilsScopedLock it returns (the
\* mutexLock it makes when lock is set is part of ScopeEnter).
utilsLockScope(mtx, t) ==
  [lock |-> ~mutexIsLockedByCurrentThread(mtx, t), cond |-> 1]

\* utilsUnlockScope calling mutexUnlock whatever scoped_lock->lock is.
utilsUnlockScope_Always(scoped_lock, mtx) == 0

\* utilsUnlockScope(&scoped_lock): the Mutex's owner after it.
utilsUnlockScope(scoped_lock, mtx) == IF scoped_lock.lock THEN 0 ELSE mtx

\* The innermost scoped lock of thread t.
Top(t) == sl.scopes[t][Len(sl.scopes[t])]

\* Thread t is at a place where it can open a scope: outside every scope or
\* in the body of its innermost one.
AtStatement(t) ==
  IF sl.scopes[t] = <<>> THEN TRUE ELSE Top(t).pos = "body"

ScopeInit ==
  /\ sl = NoScopes
  /\ nacp = NoNacp
  /\ dec = NoDec
  /\ CacheInit

\* mutexLock(mtx) by a thread outside every scope; it returns once the
\* Mutex is free.
MutexLock(t) ==
  /\ sl.scopes[t] = <<>> /\ ~sl.plain[t] /\ sl.mtx = 0
  /\ sl' = [sl EXCEPT !.mtx = t, !.plain[t] = TRUE]
  /\ UNCHANGED <<cacheVars, dec, nacp>>

\* mutexUnlock(mtx) matching the thread's own mutexLock.
MutexUnlock(t) ==
  /\ sl.scopes[t] = <<>> /\ sl.plain[t]
  /\ sl' = [sl EXCEPT !.mtx = 0, !.plain[t] = FALSE]
  /\ UNCHANGED <<cacheVars, dec, nacp>>

\* The init clause of the for statement of SCOPED_LOCK: scoped_lock =
\* utilsLockScope(mtx), whose mutexLock returns once the Mutex is free.
\* held records whether the thread held the Mutex before, runs counts the
\* times the body was entered.
ScopeEnter(t) ==
  /\ AtStatement(t)
  /\ Len(sl.scopes[t]) < MaxDepth /\ sl.n[t] < MaxScopes
  /\ LET scoped_lock == utilsLockScope(sl.mtx, t)
     IN  /\ scoped_lock.lock => sl.mtx = 0
         /\ sl' = [sl EXCEPT
                     !.mtx = IF scoped_lock.lock THEN t ELSE @,
                     !.scopes[t] =
                        Append(@, [lock |-> scoped_lock.lock,
                                   cond |-> scoped_lock.cond,
                                   pos |-> "test", held |-> (sl.mtx = t),
                                   runs |-> 0]),
                     !.n[t] = @ + 1]
  /\ UNCHANGED <<cacheVars, dec, nacp>>

\* The test of the for statement: scoped_lock.cond.
ScopeTest(t) ==
  /\ sl.scopes[t] # <<>> /\ Top(t).pos = "test"
  /\ sl' = [sl EXCEPT !.scopes[t][Len(sl.scopes[t])] =
               IF Top(t).cond # 0
               THEN [Top(t) EXCEPT !.pos = "body", !.runs = @ + 1]
               ELSE [Top(t) EXCEPT !.pos = "out"]]
  /\ UNCHANGED <<cacheVars, dec, nacp>>

\* The body ends and the for statement's step runs: scoped_lock.cond = 0.
ScopeBody(t) ==
  /\ sl.scopes[t] # <<>> /\ Top(t).pos = "body"
  /\ sl' = [sl EXCEPT !.scopes[t][Len(sl.scopes[t])] =
               [Top(t) EXCEPT !.pos = "test", !.cond = 0]]
  /\ UNCHANGED <<cacheVars, dec, nacp>>

\* The body leaves the for statement by break, return or goto.
ScopeBreak(t) ==
  /\ sl.scopes[t] # <<>> /\ Top(t).pos = "body"
  /\ sl' = [sl EXCEPT !.scopes[t][Len(sl.scopes[t])] =
               [Top(t) EXCEPT !.pos = "out"]]
  /\ UNCHANGED <<cacheVars, dec, nacp>>

\* scoped_lock goes out of scope: its cleanup utilsUnlockScope runs.
ScopeExit(t) ==
  /\ sl.scopes[t] # <<>> /\ Top(t).pos = "out"
  /\ sl' = [sl EXCEPT
              !.mtx = utilsUnlockScope(Top(t), sl.mtx),
              !.scopes[t] = SubSeq(@, 1, Len(@) - 1)]
  /\ UNCHANGED <<cacheVars, dec, nacp>>

ScopeNext ==
  \E t \in Threads :
    \/ MutexLock(t) \/ MutexUnlock(t)
    \/ ScopeEnter(t) \/ ScopeTest(t) \/ ScopeBody(t) \/ ScopeBreak(t)
    \/ ScopeExit(t)

SpecScope == ScopeInit /\ [][ScopeNext]_vars

\* C26: a thread inside a scope holds the Mutex; a scope took the Mutex
\* exactly when the thread did not hold it before; the body is entered at
\* most once, and exactly once by the time the scope is left; leaving a
\* scope changes the Mutex only when that scope took it and leaves the
\* thread holding it exactly when it held it before the scope; and a
\* thread in a body can always enter a nested scope.
C26_ScopedLockBalanced ==
  [][/\ \A t \in Threads :
          \A k \in 1..Len(sl'.scopes[t]) :
            /\ sl'.mtx = t
            /\ sl'.scopes[t][k].lock <=> ~sl'.scopes[t][k].held
            /\ sl'.scopes[t][k].runs <= 1
            /\ sl'.scopes[t][k].pos = "body" => sl'.scopes[t][k].runs = 1
     /\ \A t \in Threads :
          Len(sl'.scopes[t]) < Len(sl.scopes[t]) =>
            /\ Top(t).runs = 1
            /\ (sl'.mtx = t) <=> Top(t).held
            /\ sl'.mtx # sl.mtx => Top(t).lock
     /\ \A t \in Threads :
          (/\ sl.scopes[t] # <<>> /\ AtStatement(t)
           /\ Len(sl.scopes[t]) < MaxDepth /\ sl.n[t] < MaxScopes) =>
            ENABLED ScopeEnter(t)
    ]_vars

\* C26 witness: a thread is back in the body of its outer scope, which took
\* the Mutex, after a nested scope was entered and left, and holds the Mutex.
C26_Witness ==
  \E t \in Threads :
    /\ Len(sl.scopes[t]) = 1 /\ sl.n[t] = 2
    /\ Top(t).lock /\ Top(t).pos = "body" /\ sl.mtx = t

\* ------------------------------------------------------------------------
\* NACP contexts (nacp.h): nacpFreeContext, nacpIsValidIconContext and
\* nacpIsValidContext on one NacpContext and the buffers it owns.
\* ------------------------------------------------------------------------

\* Largest icon_count of the contexts drawn by NacpInit.
MaxIcons == 2

\* Largest number of nacpFreeContext calls made on the context.
MaxCalls == 2

NACP_MAX_ICON_SIZE == 131072

NacpLanguage_Count == 16

\* A pointer: the buffer it addresses; NoPtr is the null pointer.
BufPtr(b, i) == [buf |-> b, idx |-> i]

NoPtr == BufPtr("NULL", 0)

\* The heap buffers a NacpContext owns: the NACP, the icon context array,
\* the data of each icon and the AuthoringTool XML.
OwnedBuffers ==
  {BufPtr("data", 0), BufPtr("icon_ctx", 0), BufPtr("authoring_tool_xml", 0)}
    \cup {BufPtr("icon_data", i) : i \in 1..MaxIcons}

\* A NacpContext after memset(nacp_ctx, 0, sizeof(NacpContext)).
NacpZero ==
  [nca_ctx |-> NoPtr, romfs_ctx |-> 0, romfs_file_entry |-> NoPtr,
   nca_patch |-> 0, data |-> NoPtr, data_hash |-> 0, icon_count |-> 0,
   icon_ctx |-> NoPtr, authoring_tool_xml |-> NoPtr,
   authoring_tool_xml_size |-> 0]

\* Values of the u8 language and u64 icon_size fields around the limits the
\* validators speak of.
IconLanguages == {NacpLanguage_Count - 1, NacpLanguage_Count}

IconSizes == {0, NACP_MAX_ICON_SIZE, NACP_MAX_ICON_SIZE + 1}

\* The arrays of n NacpIconContext; icon i has no data or its own buffer.
NacpIcons(n) ==
  { [i \in 1..n |->
       [language  |-> f[i].language,
        icon_size |-> f[i].icon_size,
        icon_data |-> IF f[i].has THEN BufPtr("icon_data", i) ELSE NoPtr]] :
    f \in [1..n -> [language : IconLanguages, icon_size : IconSizes,
                    has : BOOLEAN]] }

NoCheck == [fn |-> "none", arg |-> 0, ret |-> FALSE]

\* Number of times pointer b occurs in a sequence of free() calls.
FreeCount(b, freed) == Cardinality({k \in DOMAIN freed : freed[k] = b})

\* The free() calls of nacpFreeContext on context c, in program order; icons
\* is the array c.icon_ctx addresses.
RECURSIVE IconFrees(_, _, _)
IconFrees(c, icons, i) ==
  IF i > c.icon_count THEN <<>>
  ELSE (IF icons[i].icon_data # NoPtr THEN <<icons[i].icon_data>> ELSE <<>>)
         \o IconFrees(c, icons, i + 1)

NacpFrees(c, icons) ==
  (IF c.data # NoPtr THEN <<c.data>> ELSE <<>>)
    \o (IF c.icon_ctx # NoPtr
          THEN IconFrees(c, icons, 1) \o <<c.icon_ctx>>
          ELSE <<>>)
    \o (IF c.authoring_tool_xml # NoPtr
          THEN <<c.authoring_tool_xml>> ELSE <<>>)

\* nacpFreeContext that leaves the context as it found it.
nacpFreeContext_NoMemset(nacp_ctx, icons) ==
  IF nacp_ctx = <<>> THEN [ctx |-> nacp_ctx, freed |-> <<>>]
  ELSE [ctx |-> nacp_ctx, freed |-> NacpFrees(nacp_ctx[1], icons)]

\* nacpFreeContext(nacp_ctx): nacp_ctx is <<>> for a null pointer and <<c>>
\* for a pointer to context c.  The result is the context afterwards and the
\* free() calls made.
nacpFreeContext(nacp_ctx, icons) ==
  IF nacp_ctx = <<>> THEN [ctx |-> nacp_ctx, freed |-> <<>>]
  ELSE [ctx |-> <<NacpZero>>, freed |-> NacpFrees(nacp_ctx[1], icons)]

\* nacpIsValidIconContext(icon_ctx): icon_ctx is <<>> for a null pointer and
\* <<icon>> for a pointer to an icon context.
nacpIsValidIconContext(icon_ctx) ==
  IF icon_ctx = <<>> THEN FALSE
  ELSE /\ icon_ctx[1].language < NacpLanguage_Count
       /\ icon_ctx[1].icon_size # 0
       /\ icon_ctx[1].icon_data # NoPtr

nacpIsValidContext(nacp_ctx, icons) ==
  IF nacp_ctx = <<>> THEN FALSE
  ELSE LET c == nacp_ctx[1] IN
    IF \/ c.nca_ctx = NoPtr
       \/ c.romfs_file_entry = NoPtr
       \/ c.data = NoPtr
       \/ (c.icon_count = 0 /\ c.icon_ctx # NoPtr)
       \/ (c.icon_count # 0 /\ c.icon_ctx = NoPtr)
    THEN FALSE
    ELSE \A i \in 1..c.icon_count : nacpIsValidIconContext(<<icons[i]>>)

\* A context pointer that is null, or a context whose pointer fields are each
\* null or address a buffer of their own, with icon_count entries behind a
\* non-null icon_ctx; no buffer has been freed.
NacpInit ==
  /\ \E null, nca, entry, patch, data, arr, xml \in BOOLEAN :
     \E n \in 0..MaxIcons :
     \E icons \in NacpIcons(IF arr THEN n ELSE 0) :
       /\ null => ~nca /\ ~entry /\ ~patch /\ ~data /\ ~arr /\ ~xml /\ n = 0
       /\ nacp =
            [made   |-> TRUE,
             ctx    |-> IF null THEN <<>>
                        ELSE <<[nca_ctx |-> IF nca THEN BufPtr("nca_ctx", 0)
                                            ELSE NoPtr,
                                romfs_ctx |-> IF nca THEN 1 ELSE 0,
                                romfs_file_entry |->
                                  IF entry THEN BufPtr("romfs_file_entry", 0)
                                  ELSE NoPtr,
                                nca_patch |-> IF patch THEN 1 ELSE 0,
                                data |-> IF data THEN BufPtr("data", 0)
                                         ELSE NoPtr,
                                data_hash |-> IF data THEN 1 ELSE 0,
                                icon_count |-> n,
                                icon_ctx |-> IF arr THEN BufPtr("icon_ctx", 0)
                                             ELSE NoPtr,
                                authoring_tool_xml |->
                                  IF xml THEN BufPtr("authoring_tool_xml", 0)
                                  ELSE NoPtr,
                                authoring_tool_xml_size |->
                                  IF xml THEN 1 ELSE 0]>>,
             icons   |-> icons,
             frees   |-> [b \in OwnedBuffers |-> 0],
             calls   |-> 0,
             checked |-> NoCheck]
  /\ sl = NoScopes
  /\ dec = NoDec
  /\ CacheInit

\* A call of nacpFreeContext on the context.
NacpFree ==
  /\ nacp.calls < MaxCalls
  /\ LET r == nacpFreeContext(nacp.ctx, nacp.icons) IN
       nacp' = [nacp EXCEPT
                  !.ctx     = r.ctx,
                  !.frees   = [b \in OwnedBuffers |->
                                 @[b] + FreeCount(b, r.freed)],
                  !.calls   = @ + 1,
                  !.checked = NoCheck]
  /\ UNCHANGED <<cacheVars, dec, sl>>

\* A call of nacpIsValidContext on the context.
NacpCheck ==
  /\ nacp' = [nacp EXCEPT
                !.checked = [fn |-> "ctx", arg |-> 0,
                             ret |-> nacpIsValidContext(nacp.ctx,
                                                        nacp.icons)]]
  /\ UNCHANGED <<cacheVars, dec, sl>>

\* A call of nacpIsValidIconContext on a null pointer (i = 0) or on icon i of
\* the context's array.
NacpIconCheck(i) ==
  /\ IF i = 0 THEN TRUE
     ELSE IF nacp.ctx = <<>> THEN FALSE
     ELSE nacp.ctx[1].icon_ctx # NoPtr /\ i <= nacp.ctx[1].icon_count
  /\ nacp' = [nacp EXCEPT
                !.checked =
                  [fn |-> "icon", arg |-> i,
                   ret |-> nacpIsValidIconContext(
                             IF i = 0 THEN <<>> ELSE <<nacp.icons[i]>>)]]
  /\ UNCHANGED <<cacheVars, dec, sl>>

NacpNext ==
  \/ NacpFree
  \/ NacpCheck
  \/ \E i \in 0..MaxIcons : NacpIconCheck(i)

SpecNacp == NacpInit /\ [][NacpNext]_vars

\* The buffers context c owns: those nacpFreeContext is to release.
OwnedBy(c, icons) ==
  {b \in OwnedBuffers :
     \/ b = c.data
     \/ b = c.authoring_tool_xml
     \/ c.icon_ctx # NoPtr
          /\ (b = c.icon_ctx
                \/ \E i \in 1..c.icon_count : b = icons[i].icon_data)}

\* C27: nacpFreeContext is idempotent.  No call frees a buffer that was
\* already freed; a call on a context frees exactly the buffers the context
\* owns and leaves every field zero; a call after the first one frees
\* nothing; a call on a null pointer changes nothing; and nacpIsValidContext
\* returns false for a context nacpFreeContext has been called on.
C27_FreeIdempotent ==
  [][ /\ nacp'.calls # nacp.calls =>
           /\ \A b \in OwnedBuffers : nacp'.frees[b] <= 1
           /\ nacp.ctx = <<>> =>
                nacp'.ctx = <<>> /\ nacp'.frees = nacp.frees
                  /\ nacp'.icons = nacp.icons
           /\ nacp.ctx # <<>> =>
                /\ nacp'.ctx = <<NacpZero>>
                /\ \A b \in OwnedBuffers :
                     nacp'.frees[b] = nacp.frees[b]
                       + (IF b \in OwnedBy(nacp.ctx[1], nacp.icons)
                            THEN 1 ELSE 0)
           /\ nacp.calls >= 1 => nacp'.frees = nacp.frees
           /\ ~nacpIsValidContext(nacp'.ctx, nacp'.icons)
      /\ (nacp.calls >= 1 /\ nacp'.checked.fn = "ctx") => ~nacp'.checked.ret
    ]_vars

\* A context that owned the NACP, an icon array with a first icon's data and
\* the XML has had nacpFreeContext called on it twice: every buffer has been
\* freed once, the fields are zero and nacpIsValidContext has returned false.
C27_Witness ==
  /\ nacp.calls >= 2
  /\ nacp.ctx = <<NacpZero>>
  /\ nacp.frees[BufPtr("data", 0)] = 1
  /\ nacp.frees[BufPtr("icon_ctx", 0)] = 1
  /\ nacp.frees[BufPtr("icon_data", 1)] = 1
  /\ nacp.frees[BufPtr("authoring_tool_xml", 0)] = 1
  /\ nacp.checked.fn = "ctx" /\ ~nacp.checked.ret

\* The fields of an icon context the validators promise to have checked.
IconWithinLimits(icon) ==
  /\ icon.language < NacpLanguage_Count
  /\ icon.icon_data # NoPtr
  /\ icon.icon_size # 0
  /\ icon.icon_size <= NACP_MAX_ICON_SIZE

\* C28: every icon context nacpIsValidIconContext accepts, and every icon of
\* a context nacpIsValidContext accepts, has a language below
\* NacpLanguage_Count, non-null icon data and an icon size that is non-zero
\* and at most NACP_MAX_ICON_SIZE.
C28_AcceptedIconWithinLimit ==
  /\ (nacp.checked.fn = "icon" /\ nacp.checked.ret) =>
       IconWithinLimits(nacp.icons[nacp.checked.arg])
  /\ (nacp.checked.fn = "ctx" /\ nacp.checked.ret) =>
       \A i \in 1..nacp.ctx[1].icon_count : IconWithinLimits(nacp.icons[i])

====
